---- MODULE Spec2Model ----
(***************************************************************************)
(* Model of mne/cuda.py: the process-wide CUDA capability state set by     *)
(* init_cuda, the one-time setup done by setup_cuda_fft_multiply_repeated  *)
(* and the per-signal fft_multiply_repeated, on the host path (scipy       *)
(* fft/ifft) and on the CUDA path (device buffers, R2C / C2R plans and the *)
(* in-place multiply kernel).                                              *)
(*                                                                         *)
(* Numbers are exact: a complex number is an element of Q(zeta), zeta the  *)
(* primitive 12th root of unity, written <<a0, a1, a2, a3, d>> for         *)
(* (a0 + a1 zeta + a2 zeta^2 + a3 zeta^3) / d in lowest terms.  The n-th   *)
(* roots of unity lie in this field for n in {1, 2, 3, 4, 6, 12}, so the   *)
(* transforms of those lengths are computed without rounding and "equal up *)
(* to floating-point tolerance" is equality here.  A denominator of 0 is   *)
(* NaN.                                                                    *)
(***************************************************************************)
EXTENDS Integers, Sequences, FiniteSets, TLC

\* ------------------------------------------------------------------ bounds
\* Longest filter / signal the model draws (lengths 0 .. MaxN; the lengths
\* drawn have to divide 12 for Root below to give their roots of unity).
MaxN == 3

\* ------------------------------------------------------- exact arithmetic
Abs(a) == IF a < 0 THEN -a ELSE a

RECURSIVE Gcd(_, _)
Gcd(a, b) == IF b = 0 THEN a ELSE Gcd(b, a % b)

\* IEEE not-a-number: denominator 0; it absorbs every operation below
NaN == <<0, 0, 0, 0, 0>>

\* lowest terms, positive denominator: the form in which a number is stored
Reduce(z, g) == <<z[1] \div g, z[2] \div g, z[3] \div g, z[4] \div g, z[5] \div g>>

Norm(z) ==
  IF z[5] = 0 THEN NaN
  ELSE Reduce(z, Gcd(Gcd(Gcd(Gcd(Abs(z[5]), Abs(z[1])), Abs(z[2])), Abs(z[3])), Abs(z[4])))

\* the operations below return fractions that need not be in lowest terms;
\* every array element is reduced with Norm when the array is built
CInt(k) == <<k, 0, 0, 0, 1>>
CZero == CInt(0)
COne == CInt(1)
\* the imaginary unit is zeta^3
CI == <<0, 0, 0, 1, 1>>
CNegI == <<0, 0, 0, -1, 1>>

CAdd(a, b) ==
  <<a[1] * b[5] + b[1] * a[5], a[2] * b[5] + b[2] * a[5],
    a[3] * b[5] + b[3] * a[5], a[4] * b[5] + b[4] * a[5], a[5] * b[5]>>

\* polynomial product reduced with zeta^4 = zeta^2 - 1
CMul(a, b) ==
  LET c0 == a[1] * b[1]
      c1 == a[1] * b[2] + a[2] * b[1]
      c2 == a[1] * b[3] + a[2] * b[2] + a[3] * b[1]
      c3 == a[1] * b[4] + a[2] * b[3] + a[3] * b[2] + a[4] * b[1]
      c4 == a[2] * b[4] + a[3] * b[3] + a[4] * b[2]
      c5 == a[3] * b[4] + a[4] * b[3]
      c6 == a[4] * b[4]
  IN  <<c0 - c4 - c6, c1 - c5, c2 + c4, c3 + c5, a[5] * b[5]>>

\* division by a positive integer
CDivInt(a, k) == <<a[1], a[2], a[3], a[4], a[5] * k>>

\* complex conjugate: zeta -> zeta - zeta^3, zeta^2 -> 1 - zeta^2, zeta^3 -> -zeta^3
CConj(a) == <<a[1] + a[3], a[2], -a[3], -a[2] - a[4], a[5]>>

\* real part, (a + conj a) / 2
CReal(a) == CDivInt(CAdd(a, CConj(a)), 2)

\* zeta^p, p in 0 .. 11
ZetaPow(p) ==
  LET q == p % 6
      b == CASE q = 0 -> <<1, 0, 0, 0, 1>>
             [] q = 1 -> <<0, 1, 0, 0, 1>>
             [] q = 2 -> <<0, 0, 1, 0, 1>>
             [] q = 3 -> <<0, 0, 0, 1, 1>>
             [] q = 4 -> <<-1, 0, 1, 0, 1>>
             [] q = 5 -> <<0, -1, 0, 1, 1>>
  IN  IF p % 12 < 6 THEN b ELSE <<-b[1], -b[2], -b[3], -b[4], 1>>

\* exp(2 pi i m / n) for n dividing 12, any integer m
Root(n, m) == ZetaPow(((12 \div n) * (m % n)) % 12)

\* ------------------------------------------------------------- transforms
\* an array built element by element (the concatenation makes TLC compute
\* the elements once, when the array is built)
Array(f) == f \o <<>>

\* sum over j = 1 .. m of a[j] exp(sign 2 pi i (j-1)(k-1) / n), n = Len(a):
\* coefficient k of the discrete Fourier transform (sign = -1) or of its
\* unnormalised inverse (sign = +1)
RECURSIVE DftSum(_, _, _, _)
DftSum(a, k, sign, m) ==
  IF m = 0 THEN CZero
  ELSE CAdd(CMul(a[m], Root(Len(a), sign * (m - 1) * (k - 1))), DftSum(a, k, sign, m - 1))

\* scipy.fftpack.fft: X[k] = sum_j x[j] exp(-2 pi i j k / n), full spectrum
fft(x) == Array([k \in 1..Len(x) |-> Norm(DftSum(x, k, -1, Len(x)))])

\* scipy.fftpack.ifft: y[j] = (1/n) sum_k Y[k] exp(+2 pi i j k / n)
ifft(Y) == Array([j \in 1..Len(Y) |-> Norm(CDivInt(DftSum(Y, j, 1, Len(Y)), Len(Y)))])

\* numpy elementwise product of two arrays of the same length
ArrayMul(a, b) == Array([k \in 1..Len(a) |-> Norm(CMul(a[k], b[k]))])

\* np.real
ArrayReal(a) == Array([k \in 1..Len(a) |-> Norm(CReal(a[k]))])

\* number of elements a real-to-complex transform of n samples writes and a
\* complex-to-real transform of n samples reads
HalfLen(n) == (n \div 2) + 1

\* cudafft.fft with a float64 -> complex128 plan of size n: writes the
\* HalfLen(n) non-redundant coefficients into the front of the output
\* buffer and leaves whatever else the buffer holds
cudafft_fft(x_gpu, x_fft_gpu, n) ==
  Array([k \in 1..Len(x_fft_gpu) |->
           IF k <= HalfLen(n) THEN Norm(DftSum(x_gpu, k, -1, n)) ELSE x_fft_gpu[k]])

\* cuda_multiply_inplace(a, b): b[i] = a[i] * b[i], the range taken from the
\* first vector argument
multiply_inplace(a, b) ==
  Array([k \in 1..Len(b) |-> IF k <= Len(a) THEN Norm(CMul(a[k], b[k])) ELSE b[k]])

\* cudafft.ifft with a complex128 -> float64 plan of size n and scale=False:
\* reads the first HalfLen(n) coefficients, takes the rest of the spectrum
\* from conjugate symmetry, and returns the unnormalised real result
cudafft_ifft(x_fft_gpu, n) ==
  LET Z == Array([k \in 1..n |-> IF k <= HalfLen(n) THEN x_fft_gpu[k]
                                                    ELSE CConj(x_fft_gpu[n - k + 2])])
  IN  Array([j \in 1..n |-> Norm(CReal(DftSum(Z, j, 1, n)))])

\* ------------------------------------------------------------------ values
\* Python's None, and the handles a cuda_dict field can hold
None == [type |-> "None", n |-> 0]
FFTPlan(kind, size) == [type |-> kind, n |-> size]
GpuArray(name, size) == [type |-> name, n |-> size]

\* a host ndarray or a device gpuarray of complex numbers
HostArray(data) == [gpu |-> FALSE, data |-> data]
DeviceArray(data) == [gpu |-> TRUE, data |-> data]

\* the n_jobs values a caller passes: the string 'cuda' or a job count
NJobs == {"cuda", "2"}

\* the filters the model draws: every filter of real coefficients +1 / -1,
\* one complex filter with conjugate symmetry (1, i, ..., -i) and one
\* without (i, i, ..., i)
Coefs == {COne, CInt(-1)}
ComplexSymmetric(n) ==
  Array([k \in 1..n |-> IF k = 1 THEN COne
                        ELSE IF 2 * (k - 1) < n THEN CI
                        ELSE IF 2 * (k - 1) = n THEN CInt(-1)
                        ELSE CNegI])
ComplexPlain(n) == Array([k \in 1..n |-> CI])
\* what the elements of a freshly allocated (gpuarray.empty) buffer may hold:
\* x (float64) and x_fft (complex128).  A spare element of x_fft is scaled in
\* place by every call, so it is drawn from the values that scaling leaves
\* as they are.
Junk == [x : {CZero, COne, NaN}, x_fft : {CZero, NaN}]

Filters ==
  UNION {[1..n -> Coefs] \cup {ComplexSymmetric(n), ComplexPlain(n)} : n \in 0..MaxN}
\* the unit impulses of length n, a basis of the signals
Signals(n) == {[j \in 1..n |-> IF j = p THEN COne ELSE CZero] : p \in 1..n}

\* the statements of the try block of setup_cuda_fft_multiply_repeated, in
\* order; "none" means that none of them raises
SetupSteps == <<"fft_plan", "ifft_plan", "x_fft", "x", "cuda_h_fft", "to_gpu">>
SetupFails == {SetupSteps[k] : k \in 1..Len(SetupSteps)} \cup {"none"}
StepNo(fail) ==
  IF fail = "none" THEN Len(SetupSteps) + 1
  ELSE CHOOSE k \in 1..Len(SetupSteps) : SetupSteps[k] = fail

\* the steps of the enabled branch of init_cuda, in order
InitSteps == <<"autoinit", "assert_modules", "ElementwiseKernel", "mem_get_info">>
InitFails == {InitSteps[k] : k \in 1..Len(InitSteps)} \cup {"none"}

\* values get_config('MNE_USE_CUDA', 'false') returns
Configs == {"true", "false"}

\* ------------------------------------------------------------------- state
VARIABLES
  cuda_capable,           \* module global, line 22
  cuda_multiply_inplace,  \* module global, line 23: "None" or the kernel
  default_dict,           \* the default argument dict(use_cuda=False), line 135
  h_host,                 \* the caller's frequency-domain filter, on the host
  n_jobs,                 \* what the last setup returned ("unset" before it)
  cuda_dict,
  h_fft,
  x_gpu,                  \* contents of the device buffer cuda_dict['x']
  x_fft_gpu,              \* contents of the device buffer cuda_dict['x_fft']
  x_in,                   \* the signal of the last apply with the dict of the
  y,                      \* last setup, and the array it returned
  first,                  \* the first apply with the dict of the last setup
  call                    \* the last call: what was called, with what, how it ended

vars == <<cuda_capable, cuda_multiply_inplace, default_dict,
          h_host, n_jobs, cuda_dict, h_fft, x_gpu, x_fft_gpu, x_in, y, first, call>>

EmptyDict == [use_cuda |-> FALSE, fft_plan |-> None, ifft_plan |-> None,
              x_fft |-> None, x |-> None, fft_len |-> None]

NoCall == [op |-> "none", arg |-> "", fail |-> "none", raised |-> FALSE,
           path |-> "", probes |-> 0, plans |-> 0, allocs |-> 0]
NoFirst == [set |-> FALSE, x |-> <<>>, y |-> <<>>, others |-> FALSE]

Init ==
  /\ cuda_capable = FALSE
  /\ cuda_multiply_inplace = "None"
  /\ default_dict = [use_cuda |-> FALSE]
  /\ h_host \in Filters
  /\ n_jobs = "unset"
  /\ cuda_dict = EmptyDict
  /\ h_fft = HostArray(<<>>)
  /\ x_gpu = <<>>
  /\ x_fft_gpu = <<>>
  /\ x_in = <<>>
  /\ y = <<>>
  /\ first = NoFirst
  /\ call = NoCall

\* --------------------------------------------------------------- init_cuda
\* init_cuda() with get_config returning config and the step fail raising
\* ("none": no step raises).  The result is the two globals and whether the
\* call raised.
init_cuda(config, fail, capable, kernel) ==
  IF config = "true"
  THEN IF fail \in {"autoinit", "assert_modules", "ElementwiseKernel"}
       THEN \* except: (the kernel global was not assigned)
            [cuda_capable |-> FALSE, cuda_multiply_inplace |-> kernel,
             raised |-> FALSE]
       ELSE IF fail = "mem_get_info"
       THEN \* else: clause, the logger.info argument raises, outside the try
            [cuda_capable |-> TRUE, cuda_multiply_inplace |-> "multiply_inplace",
             raised |-> TRUE]
       ELSE [cuda_capable |-> TRUE, cuda_multiply_inplace |-> "multiply_inplace",
             raised |-> FALSE]
  ELSE [cuda_capable |-> FALSE, cuda_multiply_inplace |-> kernel,
        raised |-> FALSE]

InitCuda ==
  \E config \in Configs :
  \E fail \in (IF config = "true" THEN InitFails ELSE {"none"}) :
    \E r \in {init_cuda(config, fail, cuda_capable, cuda_multiply_inplace)} :
        /\ cuda_capable' = r.cuda_capable
        /\ cuda_multiply_inplace' = r.cuda_multiply_inplace
        /\ call' = [NoCall EXCEPT !.op = "init_cuda", !.arg = config,
                                  !.fail = fail, !.raised = r.raised]
        /\ UNCHANGED <<default_dict, h_host, n_jobs, cuda_dict, h_fft,
                       x_gpu, x_fft_gpu, x_in, y, first>>

\* ---------------------------------------- setup_cuda_fft_multiply_repeated
\* lines 108-111
cuda_fft_len(n_fft) ==
  IF n_fft % 2 = 1 THEN ((n_fft + 1) \div 2) + 1 ELSE (n_fft \div 2) + 1

cuda_h_fft_unscaled(h, len) ==
  Array([k \in 1..(IF len < Len(h) THEN len ELSE Len(h)) |-> h[k]])

\* lines 114-116: h_fft[:cuda_fft_len].astype('complex128') is a copy of at
\* most cuda_fft_len leading coefficients, then divided by len(h_fft)
cuda_h_fft(h, len) ==
  Array([k \in 1..(IF len < Len(h) THEN len ELSE Len(h)) |-> Norm(CDivInt(h[k], Len(h)))])

\* lines 106-117: the locals after the try block in which the step fail
\* raised; a statement that was not reached leaves its local unbound (None)
\* and h_fft as passed in
try_block(h, fail, junk) ==
  LET n_fft == Len(h)
      done(k) == k < StepNo(fail)
      len == cuda_fft_len(n_fft)
  IN  [fft_plan  |-> IF done(1) THEN FFTPlan("Plan:float64->complex128", n_fft) ELSE None,
       ifft_plan |-> IF done(2) THEN FFTPlan("Plan:complex128->float64", n_fft) ELSE None,
       x_fft     |-> IF done(3) THEN GpuArray("gpuarray:complex128", len) ELSE None,
       x         |-> IF done(4) THEN GpuArray("gpuarray:float64", n_fft) ELSE None,
       h_fft     |-> IF done(6) THEN DeviceArray(cuda_h_fft(h, len)) ELSE HostArray(h),
       x_fft_gpu |-> IF done(3) THEN Array([k \in 1..len |-> junk.x_fft]) ELSE <<>>,
       x_gpu     |-> IF done(4) THEN Array([k \in 1..n_fft |-> junk.x]) ELSE <<>>,
       plans     |-> (IF done(1) THEN 1 ELSE 0) + (IF done(2) THEN 1 ELSE 0),
       allocs    |-> (IF done(3) THEN 1 ELSE 0) + (IF done(4) THEN 1 ELSE 0)
                     + (IF done(6) THEN 1 ELSE 0)]

\* lines 118-128: the dict after the try statement; only the else: clause,
\* taken when nothing raised, stores into it (fft_len is never stored)
cuda_dict_assigned_early(loc, fail) ==
  [EmptyDict EXCEPT !.fft_plan = loc.fft_plan, !.ifft_plan = loc.ifft_plan,
                    !.x_fft = loc.x_fft, !.x = loc.x,
                    !.use_cuda = (fail = "none")]

cuda_dict_after_try(loc, fail) ==
  IF fail = "none"
  THEN [EmptyDict EXCEPT !.use_cuda = TRUE, !.fft_plan = loc.fft_plan,
                         !.ifft_plan = loc.ifft_plan, !.x_fft = loc.x_fft,
                         !.x = loc.x]
  ELSE EmptyDict

\* line 101: the test that selects the CUDA branch
always_cuda(nj) == TRUE

is_cuda(nj) == nj = "cuda"

\* line 102: n_jobs = 1 inside the branch
n_jobs_kept(nj, branch) == IF branch THEN "cuda" ELSE nj

n_jobs_after(nj, branch) == IF branch THEN "1" ELSE nj

\* the whole function: what it returns, what it read and allocated, and the
\* contents of the device buffers the returned dict refers to
setup_cuda_fft_multiply_repeated(nj, h, capable, fail, junk) ==
  LET branch == is_cuda(nj)
      entered == branch /\ capable
      loc == try_block(h, fail, junk)
      dict == IF entered THEN cuda_dict_after_try(loc, fail) ELSE EmptyDict
  IN  [n_jobs    |-> n_jobs_after(nj, branch),
       cuda_dict |-> dict,
       h_fft     |-> IF entered THEN loc.h_fft ELSE HostArray(h),
       raised    |-> FALSE,
       probes    |-> IF branch THEN 1 ELSE 0,
       plans     |-> IF entered THEN loc.plans ELSE 0,
       allocs    |-> IF entered THEN loc.allocs ELSE 0,
       x_gpu     |-> IF dict.x # None THEN loc.x_gpu ELSE <<>>,
       x_fft_gpu |-> IF dict.x_fft # None THEN loc.x_fft_gpu ELSE <<>>]

Setup ==
  \E nj \in NJobs :
  \E fail \in (IF nj = "cuda" /\ cuda_capable THEN SetupFails ELSE {"none"}) :
  \E junk \in (IF nj = "cuda" /\ cuda_capable /\ fail = "none"
               THEN Junk ELSE {[x |-> CZero, x_fft |-> CZero]}) :
    \E r \in {setup_cuda_fft_multiply_repeated(nj, h_host, cuda_capable, fail, junk)} :
        /\ n_jobs' = r.n_jobs
        /\ cuda_dict' = r.cuda_dict
        /\ h_fft' = r.h_fft
        /\ x_gpu' = r.x_gpu
        /\ x_fft_gpu' = r.x_fft_gpu
        /\ x_in' = <<>>
        /\ y' = <<>>
        /\ first' = NoFirst
        /\ call' = [NoCall EXCEPT !.op = "setup", !.arg = nj, !.fail = fail,
                                  !.raised = r.raised, !.probes = r.probes,
                                  !.plans = r.plans, !.allocs = r.allocs]
        /\ UNCHANGED <<cuda_capable, cuda_multiply_inplace, default_dict, h_host>>

\* --------------------------------------------------- fft_multiply_repeated
\* line 154: the host branch; it reads no device state
host_path(h, x) == ArrayReal(ifft(ArrayMul(h.data, fft(x))))

\* lines 157-164: the CUDA branch.  The result is the returned array and the
\* contents of the two device buffers after the call.
cuda_path_no_set(h, x, dict, xg, xfg) ==
  LET xf1 == cudafft_fft(xg, xfg, dict.fft_plan.n)
      xf2 == multiply_inplace(h.data, xf1)
      x2  == cudafft_ifft(xf2, dict.ifft_plan.n)
  IN  [y |-> x2, x_gpu |-> x2, x_fft_gpu |-> xf2]

cuda_path(h, x, dict, xg, xfg) ==
  LET x1  == x                                               \* cuda_dict['x'].set(x)
      xf1 == cudafft_fft(x1, xfg, dict.fft_plan.n)           \* cudafft.fft
      xf2 == multiply_inplace(h.data, xf1)                   \* cuda_multiply_inplace
      x2  == cudafft_ifft(xf2, dict.ifft_plan.n)             \* cudafft.ifft
  IN  [y |-> x2, x_gpu |-> x2, x_fft_gpu |-> xf2]            \* cuda_dict['x'].get()

\* the whole function, called with the dict `dict` (an explicit argument or
\* the shared default): the returned array, whether the call raised, the
\* branch it took, the dict as the call leaves it and the device buffers as
\* the call leaves them
fft_multiply_repeated_releasing(h, x, dict, kernel, xg, xfg) ==
  IF ~dict.use_cuda
  THEN [y |-> host_path(h, x), raised |-> FALSE, path |-> "host",
        cuda_dict |-> dict, x_gpu |-> xg, x_fft_gpu |-> xfg]
  ELSE [raised |-> FALSE, path |-> "cuda", cuda_dict |-> [dict EXCEPT !.use_cuda = FALSE]]
       @@ cuda_path(h, x, dict, xg, xfg)

fft_multiply_repeated(h, x, dict, kernel, xg, xfg) ==
  IF ~dict.use_cuda
  THEN [y |-> host_path(h, x), raised |-> FALSE, path |-> "host",
        cuda_dict |-> dict, x_gpu |-> xg, x_fft_gpu |-> xfg]
  ELSE IF kernel = "None"
  THEN \* calling None raises TypeError after the upload and the forward transform
       [y |-> <<>>, raised |-> TRUE, path |-> "cuda", cuda_dict |-> dict,
        x_gpu |-> x, x_fft_gpu |-> cudafft_fft(x, xfg, dict.fft_plan.n)]
  ELSE [raised |-> FALSE, path |-> "cuda", cuda_dict |-> dict]
       @@ cuda_path(h, x, dict, xg, xfg)

\* the record of the first apply with the dict of the last setup
\* and whether an apply with another signal followed it
Remember(x, out) ==
  IF ~first.set THEN [set |-> TRUE, x |-> x, y |-> out, others |-> FALSE]
  ELSE [first EXCEPT !.others = @ \/ x # first.x]

\* fft_multiply_repeated(h_fft, x, cuda_dict) with what setup returned
ApplyWithDict ==
  /\ n_jobs # "unset"
  /\ Len(h_host) >= 1
  /\ \E x \in Signals(Len(h_host)) :
       \E r \in {fft_multiply_repeated(h_fft, x, cuda_dict, cuda_multiply_inplace,
                                        x_gpu, x_fft_gpu)} :
           /\ cuda_dict' = r.cuda_dict
           /\ x_gpu' = r.x_gpu
           /\ x_fft_gpu' = r.x_fft_gpu
           /\ x_in' = x
           /\ y' = r.y
           /\ first' = Remember(x, r.y)
           /\ call' = [NoCall EXCEPT !.op = "apply", !.arg = "dict",
                                     !.raised = r.raised, !.path = r.path]
           /\ UNCHANGED <<cuda_capable, cuda_multiply_inplace,
                          default_dict, h_host, n_jobs, h_fft>>

\* fft_multiply_repeated(h_fft, x) with the caller's host filter: the dict
\* is the shared default, which has no device fields (the array this call
\* returns is not kept in the state)
ApplyDefault ==
  /\ Len(h_host) >= 1
  /\ \E x \in Signals(Len(h_host)) :
       \E r \in {fft_multiply_repeated(HostArray(h_host), x, default_dict,
                                        cuda_multiply_inplace, x_gpu, x_fft_gpu)} :
           /\ default_dict' = r.cuda_dict
           /\ x_gpu' = r.x_gpu
           /\ x_fft_gpu' = r.x_fft_gpu
           /\ call' = [NoCall EXCEPT !.op = "apply", !.arg = "default",
                                     !.raised = r.raised, !.path = r.path]
           /\ UNCHANGED <<cuda_capable, cuda_multiply_inplace, cuda_dict,
                          h_host, n_jobs, h_fft, x_in, y, first>>

Next == InitCuda \/ Setup \/ ApplyWithDict \/ ApplyDefault

Spec == Init /\ [][Next]_vars

\* ------------------------------------------------------------------ claims
SetupReturned == call.op = "setup"
AppliedWithDict == call.op = "apply" /\ call.arg = "dict"
N == Len(h_host)

\* h[n-k] = conj(h[k]) for every k: the transform of a real impulse response
ConjugateSymmetric(h) ==
  \A k \in 1..Len(h) : h[k] = Norm(CConj(h[((Len(h) - (k - 1)) % Len(h)) + 1]))

\* C1: when setup is called with 'cuda' while cuda_capable is true and a
\* statement of the try block raises, the call returns normally with the
\* dict it started from (use_cuda False, every device field None) and with
\* the caller's host filter, whatever the statement that raised.
C1_SetupFailureFallsBack ==
  (SetupReturned /\ call.arg = "cuda" /\ cuda_capable /\ call.fail # "none") =>
    /\ ~call.raised
    /\ cuda_dict = EmptyDict
    /\ h_fft = HostArray(h_host)

C1_Witness ==
  /\ SetupReturned /\ call.arg = "cuda" /\ cuda_capable
  /\ call.fail = "to_gpu" /\ N = 3 /\ call.allocs = 2 /\ call.plans = 2

\* C2: for every filter length n >= 1, a returned dict with use_cuda True has
\* its four device fields set, an input buffer of n elements, a spectrum
\* buffer of floor(n/2)+1 elements and a device filter of as many elements
\* as the spectrum buffer.
C2_DeviceFieldsConsistent ==
  (cuda_dict.use_cuda /\ N >= 1) =>
    /\ cuda_dict.fft_plan # None /\ cuda_dict.ifft_plan # None
    /\ cuda_dict.x # None /\ cuda_dict.x_fft # None
    /\ cuda_dict.x.n = N /\ Len(x_gpu) = N
    /\ cuda_dict.x_fft.n = (N \div 2) + 1 /\ Len(x_fft_gpu) = (N \div 2) + 1
    /\ Len(h_fft.data) = cuda_dict.x_fft.n

\* C3: setup called with an n_jobs other than 'cuda' returns that n_jobs, the
\* dict with use_cuda False and every device field None, and the filter as
\* passed, without reading cuda_capable, constructing a plan or allocating
\* on the device, whatever cuda_capable is.
C3_OtherModeTouchesNothing ==
  (SetupReturned /\ call.arg # "cuda") =>
    /\ ~call.raised
    /\ n_jobs = call.arg
    /\ cuda_dict = EmptyDict
    /\ h_fft = HostArray(h_host)
    /\ call.probes = 0 /\ call.plans = 0 /\ call.allocs = 0
    /\ x_gpu = <<>> /\ x_fft_gpu = <<>>

C3_Witness ==
  /\ SetupReturned /\ call.arg = "2" /\ N >= 1
  /\ cuda_capable /\ cuda_multiply_inplace # "None"

\* C4: setup called with 'cuda' returns the job count 1 in each outcome (not
\* capable; capable and a setup step raised; capable and set up), and called
\* with any other n_jobs returns that n_jobs.
C4_JobCount ==
  SetupReturned => n_jobs = (IF call.arg = "cuda" THEN "1" ELSE call.arg)

C4_Witness ==
  /\ SetupReturned /\ call.arg = "cuda" /\ cuda_capable
  /\ call.fail = "x_fft" /\ ~cuda_dict.use_cuda /\ n_jobs = "1"

\* C5: in every reachable state the kernel handle cuda_multiply_inplace is
\* set if and only if cuda_capable is true.
C5_KernelIffCapable == (cuda_multiply_inplace # "None") <=> cuda_capable

\* C6: init_cuda with the configuration switch enabled and any step failing
\* returns normally and leaves cuda_capable false.
C6_InitFailureSwallowed ==
  (call.op = "init_cuda" /\ call.arg = "true" /\ call.fail # "none") =>
    (~call.raised /\ ~cuda_capable)

\* C7 as stated: for every filter of length n >= 1 and every signal, the
\* CUDA path returns what the host path returns for the caller's filter.
C7_PathsAgree ==
  (AppliedWithDict /\ call.path = "cuda" /\ N >= 1) =>
    (~call.raised /\ y = host_path(HostArray(h_host), x_in))

\* C7 amended: the two paths return the same array for every filter with
\* conjugate symmetry (h_fft[n-k] = conj(h_fft[k]))
C7_PathsAgreeOnSymmetricFilters ==
  (AppliedWithDict /\ call.path = "cuda" /\ N >= 1 /\ ConjugateSymmetric(h_host)) =>
    (~call.raised /\ y = host_path(HostArray(h_host), x_in))

C7_Witness ==
  /\ AppliedWithDict /\ call.path = "cuda" /\ N = 3
  /\ h_host = ComplexSymmetric(3)
  /\ y # x_in
  /\ x_fft_gpu[3] = NaN

\* C8: with the dict and filter of one setup, an apply with the signal of
\* the first apply returns what the first apply returned, whatever applies
\* came in between, on the host path and on the CUDA path.
C8_SameSignalSameOutput ==
  (AppliedWithDict /\ first.set /\ x_in = first.x) => (~call.raised /\ y = first.y)

C8_Witness ==
  /\ AppliedWithDict /\ call.path = "cuda" /\ N = 3
  /\ first.set /\ first.others /\ x_in = first.x
  /\ x_fft_gpu[3] = NaN

\* C9: setup called with an empty filter raises, for every n_jobs and every
\* value of cuda_capable; it never returns a dict for it.
C9_EmptyFilterRejected == (SetupReturned /\ N = 0) => call.raised

\* C10: an apply leaves the dict it was given as it was (use_cuda, the two
\* plans, the two buffer handles), the host branch leaves the device buffers
\* alone, the shared default dict keeps use_cuda False, so that a call
\* without a dict takes the host branch.
C10_ApplyLeavesDictAlone ==
  [][(call'.op = "apply") =>
       /\ cuda_dict' = cuda_dict
       /\ default_dict' = default_dict
       /\ ~default_dict'.use_cuda
       /\ (call'.path = "host" => (x_gpu' = x_gpu /\ x_fft_gpu' = x_fft_gpu))
       /\ (call'.arg = "default" => call'.path = "host")
       /\ (call'.arg = "dict" => (call'.path = "cuda") = cuda_dict.use_cuda)]_vars

C10_Witness ==
  /\ call.op = "apply" /\ call.arg = "default" /\ call.path = "host"
  /\ cuda_dict.use_cuda /\ first.set /\ first.others

====
